---- MODULE Spec2Model ----
(***************************************************************************)
(* Model of the pytcpr TCPR client: line transport (write_line /           *)
(* _read_line), the multi-subscriber broadcast queue, the reader loop, the *)
(* challenge-bracketed script call and the top-level run() loop.           *)
(*                                                                         *)
(* asyncio is a single-threaded cooperative scheduler: every action below  *)
(* is the code a task executes between two suspension points.              *)
(***************************************************************************)
EXTENDS Integers, Sequences, FiniteSets, TLC

(* ------------------------------ bounds --------------------------------- *)
MaxPayloadLen == 1      \* longest enumerated short payload handed to write_line
MaxWrites     == 2      \* write_line calls issued in the write_line specification
MaxLog        == 3      \* lines the reader loop submits in one behaviour
MaxSubmit     == 3      \* submit() calls in the queue specification
MaxRx         == 1      \* raw lines buffered in the StreamReader at once
MaxSubs       == 2      \* subscriptions created in the queue specification
MaxData       == 2      \* longest buffer given to a ByteStream
MaxReads      == 2      \* read_int calls made on one ByteStream
MaxIntBytes   == 3      \* largest n_bytes passed to read_int

(* ------------------------------ bytes ---------------------------------- *)
NUL == 0
LF  == 10
CR  == 13
ChT == 91               \* '[', stands for a whole timestamp prefix "[hh:mm:ss] "
ChAt == 64              \* '@', first byte of every challenge "@pytcpr~<uuid>"
LineA == <<97>>         \* an ordinary line, "a"

\* client.py:225  the server's received-message limit
LineLimit == 16384

\* A byte string is a sequence whose elements are bytes (0..255).  So that a
\* line near the 16384-byte limit stays a small value, n consecutive ordinary
\* bytes ("aaa...a") may be written as the single element Block(n) = -n.
Block(n) == 0 - n

RECURSIVE ByteLen(_)
ByteLen(line) ==
    IF line = <<>> THEN 0
    ELSE (IF Head(line) < 0 THEN 0 - Head(line) ELSE 1) + ByteLen(Tail(line))

\* Python's None, the end-of-stream sentinel; differs from every bytes value.
None == <<256>>

\* protocol_sanitizer = re.compile(b"\n|\r|\x00")
protocol_sanitizer == {LF, CR, NUL}

\* sanitize(line) raises ValueError iff the pattern is found anywhere in line.
sanitize_mut_first(line) ==
    Len(line) > 0 /\ line[1] \in protocol_sanitizer

sanitize_mut_nocr(line) ==
    \E i \in 1..Len(line) : line[i] \in {LF, NUL}

sanitize(line) ==
    \E i \in 1..Len(line) : line[i] \in protocol_sanitizer

(* ------------------------------ write_line ----------------------------- *)
\* Outcome of write_line up to (not including) the drain: "written" or the
\* error raised before anything is handed to the writer.
write_line_mut_nolimit(line) ==
    IF sanitize(line) THEN "SanitizerError" ELSE "written"

write_line_mut_limit(line) ==
    IF sanitize(line) THEN "SanitizerError"
    ELSE IF ByteLen(line) + 1 >= LineLimit - 1 THEN "SanitizerError"
    ELSE "written"

write_line(line) ==
    IF sanitize(line) THEN "SanitizerError"
    ELSE IF ByteLen(line) + 1 >= LineLimit THEN "SanitizerError"
    ELSE "written"

\* self._writer.write(line); self._writer.write(b"\n")  (no await in between)
writer_write_mut_crlf(w, line) ==
    IF write_line(line) = "written" THEN Append(Append(w \o line, CR), LF) ELSE w

writer_write_mut_noterm(w, line) ==
    IF write_line(line) = "written" THEN w \o line ELSE w

writer_write(w, line) ==
    IF write_line(line) = "written" THEN Append(w \o line, LF) ELSE w


(* ------------------------------ _read_line ---------------------------- *)
\* text = text[:-1]
strip_newline(text) == SubSeq(text, 1, Len(text) - 1)

\* timestamp_matcher.sub(b"", text, 1): a leading timestamp prefix is removed.
strip_timestamp(text) ==
    IF text # <<>> /\ Head(text) = ChT THEN Tail(text) ELSE text

\* The cleaned line _read_line returns for the raw text readline() gave, or
\* the SanitizerError it raises instead.
read_line_mut_nosanitize(text) ==
    [line |-> strip_timestamp(strip_newline(text)), err |-> "none"]

read_line(text) ==
    LET line == strip_timestamp(strip_newline(text))
    IN  [line |-> line, err |-> IF sanitize(line) THEN "SanitizerError" ELSE "none"]

(* --------------------------- challenges, scripts ----------------------- *)
\* make_random_challenge(): "@pytcpr~<uuid4>"; the n-th uuid drawn is unlike
\* every other one.
make_random_challenge(n) == <<ChAt, 48 + n>>

\* script.replace("\n", "")
RECURSIVE remove_newlines(_)
remove_newlines(script) ==
    IF script = <<>> THEN <<>>
    ELSE IF Head(script) = LF THEN remove_newlines(Tail(script))
    ELSE <<Head(script)>> \o remove_newlines(Tail(script))

\* f"string __c='{challenge}';tcpr(__c);{{{script};}};tcpr(__c);" with the
\* fixed text shortened to  '<challenge>'{<script>}
script_line(challenge, script) ==
    <<39>> \o challenge \o <<39, 123>> \o remove_newlines(script) \o <<125>>

\* One turn of the loop of write_script_and_read_responses on a message:
\* the new found_challenge, whether the message is yielded, whether the loop
\* breaks.
script_step_mut_yield(found, message, challenge) ==
    [found |-> found \/ message = challenge,
     yield |-> message # challenge,
     stop  |-> message = challenge /\ found]

script_step_mut_any(found, message, challenge) ==
    LET is_token == message # <<>> /\ Head(message) = ChAt
    IN  [found |-> found \/ is_token,
         yield |-> ~is_token /\ found,
         stop  |-> is_token /\ found]

script_step(found, message, challenge) ==
    [found |-> found \/ message = challenge,
     yield |-> message # challenge /\ found,
     stop  |-> message = challenge /\ found]

(* ------------------------- MultiSubscriberQueue ------------------------ *)
\* The asyncio.Queue of every subscription ever created is kept in the
\* sequence q, indexed by the subscription's identity; subs is the set
\* self._subscribers.  The queues are unbounded, so "await queue.put()" never
\* suspends and submit runs to completion in one step.
submit_mut_one(q, subs, message) ==
    [s \in DOMAIN q |->
        IF subs # {} /\ s = CHOOSE x \in subs : \A y \in subs : x <= y
        THEN Append(q[s], message) ELSE q[s]]

submit_mut_front(q, subs, message) ==
    [s \in DOMAIN q |-> IF s \in subs THEN <<message>> \o q[s] ELSE q[s]]

submit_mut_all(q, subs, message) ==
    [s \in DOMAIN q |-> Append(q[s], message)]

submit(q, subs, message) ==
    [s \in DOMAIN q |-> IF s \in subs THEN Append(q[s], message) ELSE q[s]]

\* "await subscriber.queue.put(message)": put() suspends only while the
\* queue is full, and an asyncio.Queue() made without maxsize never is.
put_suspends_mut_bounded(q) == Len(q) >= 1

put_suspends(q) == FALSE

\* CancellableSubscriber.cancel(): self.queue.put_nowait(None)
cancel(q, s) == [q EXCEPT ![s] = Append(q[s], None)]

\* terminate(): cancel() on every subscriber of the set.
terminate_mut_none(q, subs) == q

terminate_mut_one(q, subs) ==
    IF subs = {} THEN q ELSE cancel(q, CHOOSE x \in subs : \A y \in subs : x <= y)

terminate(q, subs) ==
    [s \in DOMAIN q |-> IF s \in subs THEN cancel(q, s)[s] ELSE q[s]]

\* CancellableSubscriber.get(): the payload taken from the queue, and whether
\* it makes get() raise asyncio.CancelledError instead of returning it.
get_raises_mut_never(payload) == FALSE

get_raises(payload) == payload = None

(* ------------------------------ ByteStream ----------------------------- *)
\* data[a:b] of Python: both ends are clamped to the buffer.
slice(data, a, b) ==
    LET lo == IF a > Len(data) THEN Len(data) ELSE a
        hi == IF b > Len(data) THEN Len(data) ELSE b
    IN  SubSeq(data, lo + 1, hi)

\* int.from_bytes(b, "big"); 0 for the empty string.
RECURSIVE from_bytes(_)
from_bytes(b) ==
    IF b = <<>> THEN 0
    ELSE from_bytes(SubSeq(b, 1, Len(b) - 1)) * 256 + b[Len(b)]

\* ByteStream(data): the cursor starts at 0.
ByteStream(data) == [data |-> data, pos |-> 0]

\* read_int(n_bytes): the value of the slice, the cursor moved by n_bytes
\* whatever the slice held.
read_int(stream, n_bytes) ==
    [value |-> from_bytes(slice(stream.data, stream.pos, stream.pos + n_bytes)),
     pos   |-> stream.pos + n_bytes]

\* bytes.decode(): UnicodeDecodeError on a byte that is no UTF-8.  The
\* alphabet used has ASCII bytes and the byte 255 only.
decodes(b) == \A i \in 1..Len(b) : b[i] < 128

\* read_string(): a 2-byte length, then that many bytes decoded as text; a
\* decode error is raised before the cursor is moved over the text.
read_string(stream) ==
    LET length == read_int(stream, 2)
        raw    == slice(stream.data, length.pos, length.pos + length.value)
    IN  IF decodes(raw)
        THEN [value |-> raw, pos |-> length.pos + length.value, err |-> "none"]
        ELSE [value |-> <<>>, pos |-> length.pos, err |-> "UnicodeDecodeError"]

\* Value of a hexadecimal digit character, -1 for any other character.
hexval(c) ==
    IF c \in 48..57 THEN c - 48
    ELSE IF c \in 97..102 THEN c - 87
    ELSE IF c \in 65..70 THEN c - 55
    ELSE 0 - 1

RECURSIVE hex_pairs(_)
hex_pairs(hex) ==
    IF Len(hex) < 2 THEN <<>>
    ELSE <<hexval(hex[1]) * 16 + hexval(hex[2])>> \o hex_pairs(SubSeq(hex, 3, Len(hex)))

\* ByteStream.from_hex(hex): bytes.fromhex raises ValueError on a character
\* that is no hexadecimal digit and on an odd number of digits.
from_hex(hex) ==
    IF Len(hex) % 2 = 1 \/ \E i \in 1..Len(hex) : hexval(hex[i]) < 0
    THEN [err |-> "ValueError", data |-> <<>>]
    ELSE [err |-> "none", data |-> hex_pairs(hex)]

\* ChatMessage.from_bytestream(stream): account_name, then message, read
\* from the cursor of the stream it is given.
ChatMessage_from_bytestream(data, pos) ==
    LET account_name == read_string([data |-> data, pos |-> pos])
        message      == read_string([data |-> data, pos |-> account_name.pos])
    IN  IF account_name.err # "none"
        THEN [args |-> <<>>, pos |-> account_name.pos, err |-> account_name.err]
        ELSE IF message.err # "none"
        THEN [args |-> <<>>, pos |-> message.pos, err |-> message.err]
        ELSE [args |-> <<account_name.value, message.value>>,
              pos |-> message.pos, err |-> "none"]

(* ------------------------------ EventRouter ---------------------------- *)
\* An event frame: a marker, the event name (one byte here) and the payload
\* as hexadecimal text.
ChEv == 35
EvChat == 99
EvOther == 120

Frame(name, hex) == <<ChEv, name>> \o hex

\* event_matcher.match(line.decode()): no match, or the name and the payload.
event_matcher(line) ==
    IF Len(line) >= 2 /\ line[1] = ChEv
    THEN [matched |-> TRUE, name |-> line[2], payload |-> SubSeq(line, 3, Len(line))]
    ELSE [matched |-> FALSE, name |-> 0, payload |-> <<>>]

\* The hexadecimal text the server writes for a payload.
hexdigit(d) == IF d < 10 THEN 48 + d ELSE 87 + d

RECURSIVE to_hex(_)
to_hex(b) ==
    IF b = <<>> THEN <<>>
    ELSE <<hexdigit(Head(b) \div 16), hexdigit(Head(b) % 16)>> \o to_hex(Tail(b))

\* self._handlers, a defaultdict(list): two handlers registered for the chat
\* event (schema [ChatMessage]), the empty list for every other name.
Handlers(name) == IF name = EvChat THEN <<1, 2>> ELSE <<>>

\* asyncio.gather over event_handler_wrapper(func, [ChatMessage]) of every
\* matching handler, all given the one stream made by handle_message: each
\* decodes from where the cursor of that stream is, then awaits its func
\* (which raises when fail holds).  The result names, per handler, the
\* arguments func was called with, or the error that ended the wrapper.
RECURSIVE gather_handlers_mut_fresh(_, _, _, _)
gather_handlers_mut_fresh(hs, data, pos, fail) ==
    IF hs = <<>> THEN <<>>
    ELSE LET m == ChatMessage_from_bytestream(data, 0)
         IN  <<[handler |-> Head(hs), args |-> m.args,
                err |-> IF m.err # "none" THEN m.err
                        ELSE IF fail THEN "Exception" ELSE "none"]>>
                 \o gather_handlers_mut_fresh(Tail(hs), data, 0, fail)

RECURSIVE gather_handlers(_, _, _, _)
gather_handlers(hs, data, pos, fail) ==
    IF hs = <<>> THEN <<>>
    ELSE LET m == ChatMessage_from_bytestream(data, pos)
         IN  <<[handler |-> Head(hs), args |-> m.args,
                err |-> IF m.err # "none" THEN m.err
                        ELSE IF fail THEN "Exception" ELSE "none"]>>
                 \o gather_handlers(Tail(hs), data, m.pos, fail)

\* The first exception among the gathered handlers, which gather() raises.
RECURSIVE first_error(_)
first_error(calls) ==
    IF calls = <<>> THEN "none"
    ELSE IF Head(calls).err # "none" THEN Head(calls).err
    ELSE first_error(Tail(calls))

\* EventRouter.handle_message(client, line): how the coroutine ends (err)
\* and the handler invocations it made (calls).
handle_message_mut_lookup_first(line, fail) ==
    LET match  == event_matcher(line)
        stream == from_hex(match.payload)
        calls  == gather_handlers(Handlers(match.name), stream.data, 0, fail)
    IN  IF ~decodes(line) THEN [err |-> "UnicodeDecodeError", calls |-> <<>>]
        ELSE IF ~match.matched THEN [err |-> "none", calls |-> <<>>]
        ELSE IF Handlers(match.name) = <<>> THEN [err |-> "none", calls |-> <<>>]
        ELSE IF stream.err # "none" THEN [err |-> stream.err, calls |-> <<>>]
        ELSE [err |-> first_error(calls), calls |-> calls]

handle_message(line, fail) ==
    LET match  == event_matcher(line)
        stream == from_hex(match.payload)
        calls  == gather_handlers(Handlers(match.name), stream.data, 0, fail)
    IN  IF ~decodes(line) THEN [err |-> "UnicodeDecodeError", calls |-> <<>>]
        ELSE IF ~match.matched THEN [err |-> "none", calls |-> <<>>]
        ELSE IF stream.err # "none" THEN [err |-> stream.err, calls |-> <<>>]
        ELSE [err |-> first_error(calls), calls |-> calls]

\* tg.create_task(sub(client, message)) in a PersistentTaskGroup: the child
\* runs as a task of its own and an exception it ends with goes to the
\* group's exception handler; the loop that created it goes on as it was.
create_task_mut_await(pc, err) == IF err # "none" THEN "failed" ELSE pc

create_task(pc, err) == pc

(* ------------------------------ state ---------------------------------- *)
VARIABLES
    transport,    \* "open" | "eof" (peer closed cleanly) | "reset" (connection lost)
    rx,           \* raw lines buffered in the StreamReader, oldest first
    lossAuthed,   \* history: whether "authed" was set when the connection went down
    bstream,      \* a ByteStream being read, with the history of its last read
    router,       \* the task running the wrapper of Router.__call__
    inflight,     \* the submit() call being made in SnapSpec, and its history
    wire,         \* every byte handed to the StreamWriter, in order
    wl,           \* the tasks calling write_line in WireSpec
    nwrites,      \* write_line calls issued so far (bounded by MaxWrites)
    subscribers,  \* MultiSubscriberQueue._subscribers
    queue,        \* the asyncio.Queue of each subscription ever created
    log,          \* history: every message passed to submit(), in order
    cons,         \* the consumer of each subscription in QueueSpec
    termAt,       \* history: Len(log) when terminate() was called, else -1
    liveAtTerm,   \* history: the subscriber set when terminate() was called
    reader,       \* the task running _read_and_dispatch_messages
    uuid,         \* uuids drawn so far by make_random_challenge
    call,         \* the tasks running write_script_and_read_responses
    run,          \* the task running run(): its position, its local "authed", its error
    authed,       \* the module-level name "authed" that client_flow assigns
    flow,         \* the task running client_flow (with _auth and ping)
    svc,          \* the coroutine of each registered service
    finished      \* tasks that ended with an exception, in the order they ended

decVars  == <<bstream, router, inflight>>
ioVars   == <<transport, rx, lossAuthed, decVars>>
wireVars == <<wire, wl, nwrites>>
mqVars   == <<subscribers, queue, log, termAt, liveAtTerm>>

wlVars   == <<wl, nwrites>>

runVars    == <<run, authed, flow, svc>>
clientVars == <<reader, uuid, call, runVars, finished>>

vars == <<transport, rx, lossAuthed, bstream, router, inflight, wire, wl, nwrites, subscribers, queue, log, cons,
          termAt, liveAtTerm, reader, uuid, call, run, authed, flow, svc, finished>>

Services == 1..2

Calls == 1..2

Writers == 1..2

\* Payloads handed to write_line: every byte string over the alphabet up to
\* MaxPayloadLen, and the two payloads around the length limit.
PayloadBytes == protocol_sanitizer \cup {97}

RECURSIVE SeqsUpTo(_, _)
SeqsUpTo(S, n) ==
    IF n = 0 THEN {<<>>}
    ELSE LET shorter == SeqsUpTo(S, n - 1)
         IN  shorter \cup {Append(s, b) : s \in {t \in shorter : Len(t) = n - 1}, b \in S}

Payloads == SeqsUpTo(PayloadBytes, MaxPayloadLen)
                \cup {<<97, LF>>, <<NUL, 97>>, <<97, CR, 97>>}
                \cup {<<Block(LineLimit - 2)>>, <<Block(LineLimit - 1)>>,
                      <<Block(LineLimit - 3), CR>>}

Init ==
    /\ transport = "open"
    /\ rx = <<>>
    /\ lossAuthed = FALSE
    /\ bstream = [data |-> <<>>, pos |-> 0, reads |-> 0,
                  last |-> [n |-> 0, before |-> 0, value |-> 0, err |-> "none"]]
    /\ inflight = [active |-> FALSE, suspended |-> FALSE, message |-> <<>>,
                   startSet |-> {}, size |-> 0, visited |-> {}, err |-> "none",
                   calls |-> 0]
    /\ router = [pc |-> "new", sub |-> 0, subAt |-> 0, raw |-> <<>>, faults |-> 0,
                 last |-> [line |-> <<>>, err |-> "none", calls |-> <<>>, after |-> 0]]
    /\ wire = <<>>
    /\ wl = [w \in Writers |-> [pc |-> "idle", line |-> <<>>, res |-> "none",
                                  before |-> <<>>, after |-> <<>>]]
    /\ nwrites = 0
    /\ subscribers = {}
    /\ queue = <<>>
    /\ log = <<>>
    /\ cons = <<>>
    /\ termAt = -1
    /\ liveAtTerm = {}
    /\ reader = [pc |-> "new", err |-> "none", spin |-> FALSE, cancelReq |-> FALSE]
    /\ run = [pc |-> "new", authed |-> FALSE, err |-> "none", logAtEnd |-> 0]
    /\ authed = FALSE
    /\ flow = [pc |-> "new", err |-> "none", challenge |-> <<>>, sub |-> 0,
               written |-> FALSE, agen |-> "none", tasks |-> FALSE]
    /\ svc = [i \in Services |-> "new"]
    /\ finished = <<>>
    /\ uuid = 0
    /\ call = [c \in Calls |->
                [pc |-> "idle", challenge |-> <<>>, sub |-> 0, subAt |-> 0,
                 found |-> FALSE, yielded |-> <<>>, got |-> <<>>, err |-> "none",
                 written |-> FALSE]]

(* ---------------- write_line, called by an application task ------------ *)
\* write_line up to its await: sanitize, length check, the two writes.
WriteLineCall(w, line) ==
    /\ wl[w].pc = "idle"
    /\ nwrites < MaxWrites
    /\ nwrites' = nwrites + 1
    /\ wire' = writer_write(wire, line)
    /\ wl' = [wl EXCEPT ![w] =
                [pc     |-> IF write_line(line) = "written" THEN "draining" ELSE "idle",
                 res    |-> IF write_line(line) = "written" THEN "none"
                                                            ELSE write_line(line),
                 line   |-> line,
                 before |-> wire,      \* history: the wire when the call started
                 after  |-> wire']]    \* history: the wire when the call suspended/raised
    /\ UNCHANGED <<ioVars, mqVars, cons, clientVars>>

\* await self._writer.drain(): raises the reader's exception if one is set.
WriteLineDrained(w) ==
    /\ wl[w].pc = "draining"
    /\ wl' = [wl EXCEPT ![w].pc = "idle",
                         ![w].res = IF transport = "reset"
                                    THEN "ConnectionResetError" ELSE "ok"]
    /\ UNCHANGED <<ioVars, wire, nwrites, mqVars, cons, clientVars>>

WireNext ==
    \/ \E w \in Writers, line \in Payloads : WriteLineCall(w, line)
    \/ \E w \in Writers : WriteLineDrained(w)

WireSpec == Init /\ [][WireNext]_vars

\* A write_line call by w has been made (it is draining, or it has ended).
WlCalled(w) == wl[w].pc = "draining" \/ wl[w].res # "none"

HasIllegalByte(line) == \E i \in 1..Len(line) : line[i] = LF \/ line[i] = CR \/ line[i] = NUL

\* C9: a payload with none of \n, \r, NUL and len+1 < 16384 is accepted:
\* the call hands exactly payload + "\n" to the writer (no "\r", nothing
\* else) and, once drained on the live connection, returns normally.
C9_WriteLineSuccess ==
    \A w \in Writers :
        (WlCalled(w) /\ ~HasIllegalByte(wl[w].line) /\ ByteLen(wl[w].line) + 1 < 16384)
            => /\ wl[w].res \in {"none", "ok"}
               /\ wl[w].after = wl[w].before \o wl[w].line \o <<LF>>
               /\ (wl[w].res = "ok" => wl[w].pc = "idle")

C9_Witness ==
    \E w \in Writers :
        /\ wl[w].res = "ok"
        /\ wl[w].line = <<Block(16382)>>
        /\ wl[w].before # <<>>
        /\ wl[w].after = wl[w].before \o <<Block(16382), LF>>

\* C10: a payload containing \n, \r or NUL anywhere is refused with
\* SanitizerError and the call writes nothing: the wire is as it was.
C10_WriteLineSanitized ==
    \A w \in Writers :
        (WlCalled(w) /\ HasIllegalByte(wl[w].line))
            => /\ wl[w].res = "SanitizerError"
               /\ wl[w].pc = "idle"
               /\ wl[w].after = wl[w].before

C10_Witness ==
    \E w \in Writers :
        /\ wl[w].res = "SanitizerError"
        /\ wl[w].line = <<97, CR, 97>>
        /\ wl[w].before # <<>>
        /\ wire = wl[w].before

(* ------------------- the broadcast queue on its own -------------------- *)
\* QueueSpec drives MultiSubscriberQueue the way every user in the repository
\* does: a producer submitting and terminating, and consumers of the form
\*     async with mqueue.subscriber() as messages:
\*         async for message in messages: ...
\* each of which may leave its "async with" block at any time.
\* The queue never inspects a line, so the producer submits the distinct
\* lines "a", "b", "c", ... in turn: any loss, duplication or reordering shows.
NextLine == <<97 + Len(log)>>

\* MessageSubscriptionManager.__aenter__ -> _subscribe()
QSubscribe ==
    /\ Len(queue) < MaxSubs
    /\ subscribers' = subscribers \cup {Len(queue) + 1}
    /\ queue' = Append(queue, <<>>)
    /\ cons' = Append(cons, [seen |-> <<>>, state |-> "iterating", end |-> "none",
                             subAt |-> Len(log), unsubAt |-> -1, exitErr |-> "none"])
    /\ UNCHANGED <<ioVars, wireVars, log, termAt, liveAtTerm, clientVars>>

\* MessageSubscriptionManager.__aexit__ -> _unsubscribe(): set.remove raises
\* KeyError when the subscription is not in the set.
aexit(c, subs, s, now) ==
    IF s \in subs THEN [c EXCEPT !.state = "exited", !.unsubAt = now]
                  ELSE [c EXCEPT !.state = "exited", !.exitErr = "KeyError"]

\* The consumer leaves its block early (break, return or an error of its own).
QLeave(s) ==
    /\ s \in DOMAIN queue
    /\ cons[s].state = "iterating"
    /\ cons' = [cons EXCEPT ![s] = aexit(@, subscribers, s, Len(log))]
    /\ subscribers' = subscribers \ {s}
    /\ UNCHANGED <<ioVars, wireVars, queue, log, termAt, liveAtTerm, clientVars>>

QSubmit(message) ==
    /\ Len(log) < MaxSubmit
    /\ queue' = submit(queue, subscribers, message)
    /\ log' = Append(log, message)
    /\ UNCHANGED <<ioVars, wireVars, subscribers, cons, termAt, liveAtTerm, clientVars>>

QTerminate ==
    /\ termAt = -1
    /\ queue' = terminate(queue, subscribers)
    /\ termAt' = Len(log)
    /\ liveAtTerm' = subscribers
    /\ UNCHANGED <<ioVars, wireVars, subscribers, log, cons, clientVars>>

\* One turn of "async for message in messages": get() returns the next
\* payload, or raises CancelledError on the sentinel; the error leaves the
\* "async with" block, whose __aexit__ unsubscribes, and ends the consumer.
\* (A loop that ended by exhaustion would have end = "StopAsyncIteration".)
QGet(s) ==
    /\ s \in DOMAIN queue
    /\ cons[s].state = "iterating"
    /\ queue[s] # <<>>
    /\ queue' = [queue EXCEPT ![s] = Tail(queue[s])]
    /\ IF get_raises(Head(queue[s]))
       THEN /\ cons' = [cons EXCEPT ![s] =
                          aexit([@ EXCEPT !.end = "CancelledError"],
                                subscribers, s, Len(log))]
            /\ subscribers' = subscribers \ {s}
       ELSE /\ cons' = [cons EXCEPT ![s].seen = Append(@, Head(queue[s]))]
            /\ UNCHANGED subscribers
    /\ UNCHANGED <<ioVars, wireVars, log, termAt, liveAtTerm, clientVars>>

QueueNext ==
    \/ QSubscribe
    \/ \E s \in 1..MaxSubs : QLeave(s)
    \/ QSubmit(NextLine)
    \/ QTerminate
    \/ \E s \in 1..MaxSubs : QGet(s)

QueueSpec == Init /\ [][QueueNext]_vars

\* The lines of a queue's content, the sentinels left out.
RECURSIVE LinesOf(_)
LinesOf(q) ==
    IF q = <<>> THEN <<>>
    ELSE IF Head(q) = None THEN LinesOf(Tail(q))
    ELSE <<Head(q)>> \o LinesOf(Tail(q))

IsPrefix(a, b) == Len(a) <= Len(b) /\ SubSeq(b, 1, Len(a)) = a

\* C3: every subscription is handed exactly the lines submitted after it
\* subscribed and before it unsubscribed, each once and in submission order:
\* what its consumer has observed, followed by what is still buffered for
\* it, is that slice of the submission history.
C3_BroadcastOrder ==
    \A s \in DOMAIN queue :
        cons[s].seen \o LinesOf(queue[s]) =
            SubSeq(log, cons[s].subAt + 1,
                   IF cons[s].unsubAt = -1 THEN Len(log) ELSE cons[s].unsubAt)

\* Submissions [a, b, c]; subscription 1 made before a, subscription 2 made
\* between a and b: 1 has observed [a, b, c] and 2 has observed [b, c].
C3_Witness ==
    /\ log = <<(<<97>>), (<<98>>), (<<99>>)>>
    /\ Len(queue) = 2
    /\ cons[1].subAt = 0 /\ cons[1].seen = log
    /\ cons[2].subAt = 1 /\ cons[2].seen = <<(<<98>>), (<<99>>)>>

\* The lines delivered to s up to the call of terminate().
BeforeTerminate(s) == SubSeq(log, cons[s].subAt + 1, termAt)

TerminatedConsumer(s) == s \in liveAtTerm /\ cons[s].end # "none"

\* C4 as stated: a subscription live at terminate() ends normally, no error
\* reaching its consumer.
C4_EndsWithoutError ==
    \A s \in DOMAIN queue :
        TerminatedConsumer(s) => cons[s].end = "StopAsyncIteration"

\* C4 amended: a subscription live at terminate() has the sentinel behind the
\* lines already buffered; its consumer observes those lines and nothing
\* submitted later, and its loop then ends by get() raising
\* asyncio.CancelledError to it.
C4_EndsCancelled ==
    \A s \in liveAtTerm :
        /\ IsPrefix(cons[s].seen, BeforeTerminate(s))
        /\ cons[s].state = "iterating" =>
              \E i \in 1..Len(queue[s]) :
                  /\ queue[s][i] = None
                  /\ cons[s].seen \o SubSeq(queue[s], 1, i - 1) = BeforeTerminate(s)
        /\ cons[s].end # "none" =>
              /\ cons[s].end = "CancelledError"
              /\ cons[s].seen = BeforeTerminate(s)

\* A subscription with two lines buffered at terminate(), one more submitted
\* afterwards: its consumer has read the two lines and was then cancelled.
C4_Witness ==
    \E s \in liveAtTerm :
        /\ cons[s].end = "CancelledError"
        /\ Len(cons[s].seen) = 2
        /\ cons[s].seen = BeforeTerminate(s)
        /\ Len(log) > termAt

(* ------------------------------ the server ----------------------------- *)
\* The challenges the server can echo: those of the script lines written so
\* far.  A challenge is drawn afresh for every call, so it cannot be on the
\* inbound stream before the line carrying it has been written.
Echoable ==
    {call[c].challenge : c \in {d \in Calls : call[d].written}}
        \cup (IF flow.written THEN {flow.challenge} ELSE {})

\* Raw lines the server sends: a timestamped "a", a CRLF-framed "a" (illegal
\* once the "\n" is stripped), and the echo of a known challenge.
ServerLines ==
    {<<ChT>> \o LineA \o <<LF>>, LineA \o <<CR, LF>>}
        \cup {t \o <<LF>> : t \in Echoable}

ServerSend(text) ==
    /\ transport = "open"
    /\ Len(rx) < MaxRx
    /\ Len(log) + Len(rx) < MaxLog
    /\ rx' = Append(rx, text)
    /\ UNCHANGED <<transport, lossAuthed, decVars, wire, wlVars, mqVars, cons, clientVars>>

\* The peer closes the connection (readline() then returns what is buffered
\* and after that b"" for ever), or the connection is lost (readline() raises).
ServerClose(how) ==
    /\ transport = "open"
    /\ transport' = how
    /\ lossAuthed' = authed
    /\ UNCHANGED <<rx, decVars, wire, wlVars, mqVars, cons, clientVars>>

(* --------------------- _read_and_dispatch_messages --------------------- *)
\* What "await self._reader.readline()" gives: an exception set on the
\* reader is raised before anything buffered is looked at; at EOF with an
\* empty buffer the result is b"", without suspending.
readline_raises == transport = "reset"
readline_text == IF rx # <<>> THEN Head(rx) ELSE <<>>

\* asyncio.create_task(self._read_and_dispatch_messages())
SinkStart ==
    /\ reader.pc = "new"
    /\ reader' = [reader EXCEPT !.pc = "reading"]
    /\ UNCHANGED <<ioVars, wire, wlVars, mqVars, cons, uuid, call, runVars, finished>>

\* The handler of the bare "except:" of the loop: terminate the queue, re-raise.
ReaderFails(error) ==
    /\ reader' = [reader EXCEPT !.pc = "failed", !.err = error, !.spin = FALSE]
    /\ finished' = Append(finished, [task |-> "sink", err |-> error, authed |-> authed])
    /\ queue' = terminate(queue, subscribers)
    /\ termAt' = Len(log)
    /\ liveAtTerm' = subscribers
    /\ UNCHANGED <<log, subscribers>>

\* One turn of the loop: message = await self._read_line();
\* await self._mqueue.submit(message).  Neither await suspends once the
\* transport is at EOF, so from its first read at EOF on the loop keeps the
\* event loop to itself (reader.spin).
ReaderTurn ==
    /\ reader.pc = "reading"
    /\ ~reader.cancelReq
    /\ rx # <<>> \/ transport # "open"
    /\ IF readline_raises
       THEN /\ ReaderFails("ConnectionResetError")
            /\ UNCHANGED rx
       ELSE /\ rx' = IF rx # <<>> THEN Tail(rx) ELSE rx
            /\ IF read_line(readline_text).err # "none"
               THEN ReaderFails(read_line(readline_text).err)
               ELSE /\ Len(log) < MaxLog
                    /\ queue' = submit(queue, subscribers, read_line(readline_text).line)
                    /\ log' = Append(log, read_line(readline_text).line)
                    /\ reader' = [reader EXCEPT !.spin = (rx = <<>>)]
                    /\ UNCHANGED <<subscribers, termAt, liveAtTerm, finished>>
    /\ UNCHANGED <<transport, lossAuthed, decVars, wire, wlVars, cons, uuid, call, runVars>>

\* sink_task.cancel(): CancelledError is thrown into the loop at its await.
ReaderCancelled ==
    /\ reader.pc = "reading"
    /\ reader.cancelReq
    /\ ReaderFails("CancelledError")
    /\ UNCHANGED <<ioVars, wire, wlVars, cons, uuid, call, runVars>>

\* The event loop can run another task: the reader loop is not spinning.
LoopFree == ~reader.spin

(* ------------------- write_script_and_read_responses ------------------- *)
Scripts == {<<120>>, <<120, LF>>, <<120, CR>>}

\* The call up to its first suspension: the challenge is drawn, the line
\* composed, and write_line_and_read_messages enters "async with
\* self.subscriber()" and then calls write_line.  A SanitizerError leaves the
\* "async with" block (unsubscribing) and ends the call.
CallStart(c, script) ==
    LET challenge == make_random_challenge(uuid + 1)
        line      == script_line(challenge, script)
        sub       == Len(queue) + 1
        refused   == write_line(line) # "written"
    IN  /\ LoopFree
        /\ call[c].pc = "idle"
        /\ \A d \in Calls : d < c => call[d].pc # "idle"   \* the calls are alike
        /\ uuid' = uuid + 1
        /\ queue' = Append(queue, <<>>)
        /\ subscribers' = IF refused THEN subscribers ELSE subscribers \cup {sub}
        /\ wire' = writer_write(wire, line)
        /\ call' = [call EXCEPT ![c] =
                     [@ EXCEPT !.pc = IF refused THEN "raised" ELSE "draining",
                               !.err = IF refused THEN write_line(line) ELSE "none",
                               !.challenge = challenge,
                               !.sub = sub,
                               !.subAt = Len(log),
                               !.written = ~refused]]
        /\ UNCHANGED <<ioVars, wlVars, log, termAt, liveAtTerm, cons, reader, runVars, finished>>

\* "await self._writer.drain()" of that write_line returns, or raises the
\* exception set on the reader (the error leaves the "async with" block).
CallDrained(c) ==
    /\ LoopFree
    /\ call[c].pc = "draining"
    /\ IF transport = "reset"
       THEN /\ call' = [call EXCEPT ![c].pc = "raised",
                                    ![c].err = "ConnectionResetError"]
            /\ subscribers' = subscribers \ {call[c].sub}
       ELSE /\ call' = [call EXCEPT ![c].pc = "reading"]
            /\ UNCHANGED subscribers
    /\ UNCHANGED <<ioVars, wire, wlVars, queue, log, termAt, liveAtTerm, cons,
                   reader, uuid, runVars, finished>>

\* One message taken from the subscription by "async for message in
\* messages" and handed to the loop of write_script_and_read_responses.
\* The sentinel raises CancelledError through the "async with" block
\* (unsubscribing); "break" ends the call with the inner generator still
\* suspended inside its "async with" block.
CallGet(c) ==
    LET message == Head(queue[call[c].sub])
        step    == script_step(call[c].found, message, call[c].challenge)
    IN  /\ LoopFree
        /\ call[c].pc = "reading"
        /\ queue[call[c].sub] # <<>>
        /\ queue' = [queue EXCEPT ![call[c].sub] = Tail(@)]
        /\ IF get_raises(message)
           THEN /\ call' = [call EXCEPT ![c].pc = "raised", ![c].err = "CancelledError"]
                /\ subscribers' = subscribers \ {call[c].sub}
           ELSE /\ call' = [call EXCEPT ![c] =
                             [@ EXCEPT !.got = Append(@, message),
                                       !.found = step.found,
                                       !.yielded = IF step.yield THEN Append(@, message)
                                                                 ELSE @,
                                       !.pc = IF step.stop THEN "done" ELSE "reading"]]
                /\ UNCHANGED subscribers
        /\ UNCHANGED <<ioVars, wire, wlVars, log, termAt, liveAtTerm, cons, reader, uuid,
                       runVars, finished>>

\* The abandoned inner generator is finalized: the event loop runs its
\* aclose(), GeneratorExit leaves the "async with" block, __aexit__ unsubscribes.
CallAclose(c) ==
    /\ LoopFree
    /\ call[c].pc = "done"
    /\ call' = [call EXCEPT ![c].pc = "closed"]
    /\ subscribers' = subscribers \ {call[c].sub}
    /\ UNCHANGED <<ioVars, wire, wlVars, queue, log, termAt, liveAtTerm, cons,
                   reader, uuid, runVars, finished>>

ScriptNext ==
    \/ \E text \in ServerLines : ServerSend(text)
    \/ \E how \in {"eof", "reset"} : ServerClose(how)
    \/ SinkStart
    \/ ReaderTurn
    \/ \E c \in Calls, script \in Scripts : CallStart(c, script)
    \/ \E c \in Calls : CallDrained(c)
    \/ \E c \in Calls : CallGet(c)
    \/ \E c \in Calls : CallAclose(c)

ScriptSpec == Init /\ [][ScriptNext]_vars

\* The lines of s strictly between its first and its second occurrence of t
\* (to the end of s if t occurs only once; none if t does not occur).
RECURSIVE UpTo(_, _)
UpTo(s, t) ==
    IF s = <<>> \/ Head(s) = t THEN <<>> ELSE <<Head(s)>> \o UpTo(Tail(s), t)

RECURSIVE After(_, _)
After(s, t) ==
    IF s = <<>> THEN <<>> ELSE IF Head(s) = t THEN Tail(s) ELSE After(Tail(s), t)

Bracketed(s, t) == UpTo(After(s, t), t)

RECURSIVE Count(_, _)
Count(s, t) ==
    IF s = <<>> THEN 0 ELSE (IF Head(s) = t THEN 1 ELSE 0) + Count(Tail(s), t)

RECURSIVE Without(_, _)
Without(s, t) ==
    IF s = <<>> THEN <<>>
    ELSE IF Head(s) = t THEN Without(Tail(s), t)
    ELSE <<Head(s)>> \o Without(Tail(s), t)

\* The lines the reader loop has read since call c subscribed, as far as c
\* has taken them from its subscription.
Taken(c) == SubSeq(log, call[c].subAt + 1, call[c].subAt + Len(call[c].got))

Started(c) == call[c].written

\* C1: a script call with challenge T takes the lines read since it
\* subscribed in order; it has yielded exactly those strictly between the
\* first and the second T, it ends exactly at the second T, and no T was
\* read before its subscription existed (the start bracket is not missed).
C1_ScriptBracketing ==
    \A c \in Calls :
        Started(c) =>
            /\ call[c].got = Taken(c)
            /\ call[c].yielded = Bracketed(Taken(c), call[c].challenge)
            /\ call[c].pc \in {"done", "closed"} <=>
                  /\ Count(Taken(c), call[c].challenge) = 2
                  /\ Taken(c)[Len(Taken(c))] = call[c].challenge
            /\ call[c].pc \in {"draining", "reading"} =>
                  Count(Taken(c), call[c].challenge) < 2
            /\ \A i \in 1..call[c].subAt : log[i] # call[c].challenge

\* The stream T, "a", T: the call has ended and has yielded exactly ["a"].
C1_Witness ==
    \E c \in Calls :
        /\ call[c].pc = "done"
        /\ call[c].got = <<call[c].challenge, LineA, call[c].challenge>>
        /\ call[c].yielded = <<LineA>>

\* C2: of two calls in flight together, each filters by its own challenge
\* only: what it has yielded is the bracket of its own challenge in the lines
\* read since it subscribed, the other call's challenge is to it a line like
\* any other (leaving it out of the stream leaves it out of the result and
\* changes nothing else), and the call has ended as soon as it has taken its
\* own second challenge, whatever the state of the other call.
C2_ConcurrentCalls ==
    \A c, d \in Calls :
        (c # d /\ Started(c) /\ Started(d)) =>
            LET Tc == call[c].challenge
                Td == call[d].challenge
                stream == SubSeq(log, call[c].subAt + 1,
                                 call[c].subAt + Len(call[c].got))
            IN  /\ Tc # Td
                /\ call[c].yielded = Bracketed(stream, Tc)
                /\ Without(call[c].yielded, Td) = Bracketed(Without(stream, Td), Tc)
                /\ Count(stream, Tc) >= 2 => call[c].pc \in {"done", "closed"}
                /\ (call[c].pc \in {"done", "closed"} /\ Count(stream, Tc) = 2)
                      \/ call[c].pc \in {"draining", "reading", "raised"}

\* Both calls written before anything was read; the stream T1, T2, T1: call 1
\* has ended having yielded [T2], call 2 is still open and has yielded [T1].
C2_Witness ==
    /\ call[1].pc = "done" /\ call[2].pc = "reading"
    /\ call[1].subAt = 0 /\ call[2].subAt = 0
    /\ call[1].yielded = <<call[2].challenge>>
    /\ call[2].yielded = <<call[1].challenge>>
    /\ call[2].found

(* ------------------------------- run() --------------------------------- *)
Passwords == {<<112>>, <<112, LF>>}

\* f"tcpr('{ping_challenge}')" where ping_challenge is already bytes: the
\* script carries the repr  b'<challenge>'  of the challenge.
pong_script(challenge) ==
    <<116, 99, 112, 114, 40, 39, 98, 39>> \o challenge \o <<39, 39, 41>>

\* run() up to "await asyncio.gather(client_flow(), sink_task)": the service
\* coroutines are created, the reader loop and client_flow become tasks.
RunStart ==
    /\ run.pc = "new"
    /\ run' = [run EXCEPT !.pc = "gathering", !.authed = FALSE]
    /\ svc' = [i \in Services |-> "created"]
    /\ reader' = [reader EXCEPT !.pc = "reading"]
    /\ flow' = [flow EXCEPT !.pc = "start"]
    /\ UNCHANGED <<ioVars, wire, wlVars, mqVars, cons, uuid, call, authed, finished>>

\* client_flow ends with an exception; gather sees the tasks in the order
\* in which they ended.
FlowFails(f, error) ==
    /\ flow' = [f EXCEPT !.pc = "failed", !.err = error]
    /\ finished' = Append(finished, [task |-> "flow", err |-> error, authed |-> authed])

\* _auth: await self.write_line(password), up to the drain.
FlowAuth(password) ==
    /\ LoopFree
    /\ flow.pc = "start"
    /\ wire' = writer_write(wire, password)
    /\ IF write_line(password) = "written"
       THEN /\ flow' = [flow EXCEPT !.pc = "pw_draining"]
            /\ UNCHANGED finished
       ELSE FlowFails(flow, write_line(password))
    /\ UNCHANGED <<ioVars, wlVars, mqVars, cons, reader, uuid, call, run, authed, svc>>

\* The drain of the password line returns (or raises); then ping(): the
\* challenge is drawn, write_line_and_read_messages subscribes and writes the
\* pong script, up to the drain.
FlowPing ==
    LET challenge == make_random_challenge(uuid + 1)
        sub == Len(queue) + 1
    IN  /\ LoopFree
        /\ flow.pc = "pw_draining"
        /\ IF transport = "reset"
           THEN /\ FlowFails(flow, "ConnectionResetError")
                /\ UNCHANGED <<uuid, queue, subscribers, wire>>
           ELSE /\ uuid' = uuid + 1
                /\ queue' = Append(queue, <<>>)
                /\ subscribers' = subscribers \cup {sub}
                /\ wire' = writer_write(wire, pong_script(challenge))
                /\ flow' = [flow EXCEPT !.pc = "ping_draining", !.challenge = challenge,
                                        !.sub = sub, !.written = TRUE, !.agen = "open"]
                /\ UNCHANGED finished
        /\ UNCHANGED <<ioVars, wlVars, log, termAt, liveAtTerm, cons, reader, call,
                       run, authed, svc>>

\* The drain of the pong script returns, or raises the exception set on the
\* reader, which leaves the "async with" block.
FlowPingDrained ==
    /\ LoopFree
    /\ flow.pc = "ping_draining"
    /\ IF transport = "reset"
       THEN /\ FlowFails([flow EXCEPT !.agen = "closed"], "ConnectionResetError")
            /\ subscribers' = subscribers \ {flow.sub}
       ELSE /\ flow' = [flow EXCEPT !.pc = "ping_waiting"]
            /\ UNCHANGED <<subscribers, finished>>
    /\ UNCHANGED <<ioVars, wire, wlVars, queue, log, termAt, liveAtTerm, cons, reader,
                   uuid, call, run, authed, svc>>

\* One message taken by write_line_and_block_until_message.  On the expected
\* challenge it breaks (the generator stays suspended in its "async with"),
\* _auth returns, client_flow assigns the global "authed" and gathers the
\* service coroutines, which makes a task of each.
FlowPingGet ==
    LET message == Head(queue[flow.sub])
    IN  /\ LoopFree
        /\ flow.pc = "ping_waiting"
        /\ queue[flow.sub] # <<>>
        /\ queue' = [queue EXCEPT ![flow.sub] = Tail(@)]
        /\ IF get_raises(message)
           THEN /\ FlowFails([flow EXCEPT !.agen = "closed"], "CancelledError")
                /\ subscribers' = subscribers \ {flow.sub}
                /\ UNCHANGED authed
           ELSE /\ IF message = flow.challenge
                   THEN /\ flow' = [flow EXCEPT !.pc = "services", !.agen = "abandoned",
                                                !.tasks = TRUE]
                        /\ authed' = TRUE
                   ELSE UNCHANGED <<flow, authed>>
                /\ UNCHANGED <<subscribers, finished>>
        /\ UNCHANGED <<ioVars, wire, wlVars, log, termAt, liveAtTerm, cons, reader,
                       uuid, call, run, svc>>

\* asyncio.wait_for(..., 15) expires: the wait is cancelled inside the
\* generator (its "async with" unsubscribes) and ping raises
\* ConnectionResetError("Server did not respond to ping").
FlowTimeout ==
    /\ LoopFree
    /\ flow.pc \in {"ping_draining", "ping_waiting"}
    /\ FlowFails([flow EXCEPT !.agen = "closed"], "ConnectionResetError")
    /\ subscribers' = subscribers \ {flow.sub}
    /\ UNCHANGED <<ioVars, wire, wlVars, queue, log, termAt, liveAtTerm, cons, reader,
                   uuid, call, run, authed, svc>>

\* The generator abandoned by ping's break is finalized: aclose() unsubscribes.
FlowAclose ==
    /\ LoopFree
    /\ flow.agen = "abandoned"
    /\ flow' = [flow EXCEPT !.agen = "closed"]
    /\ subscribers' = subscribers \ {flow.sub}
    /\ UNCHANGED <<ioVars, wire, wlVars, queue, log, termAt, liveAtTerm, cons, reader,
                   uuid, call, run, authed, svc, finished>>

\* The tasks of the inner gather exist once client_flow has reached it; they
\* outlive a failure of client_flow (gather does not cancel the others).
Gathered == flow.tasks

\* A service's task starts its coroutine.
SvcStart(i) ==
    /\ LoopFree
    /\ Gathered
    /\ svc[i] = "created"
    /\ svc' = [svc EXCEPT ![i] = "running"]
    /\ UNCHANGED <<ioVars, wire, wlVars, mqVars, cons, reader, uuid, call, run, authed,
                   flow, finished>>

\* A running service returns, or raises.
SvcEnd(i, how) ==
    /\ LoopFree
    /\ svc[i] = "running"
    /\ svc' = [svc EXCEPT ![i] = how]
    /\ UNCHANGED <<ioVars, wire, wlVars, mqVars, cons, reader, uuid, call, run, authed,
                   flow, finished>>

\* The task of a service whose coroutine run() has closed steps it again:
\* RuntimeError("cannot reuse already awaited coroutine") ends the task.
SvcReuse(i) ==
    /\ LoopFree
    /\ Gathered
    /\ svc[i] = "closed"
    /\ svc' = [svc EXCEPT ![i] = "RuntimeError"]
    /\ UNCHANGED <<ioVars, wire, wlVars, mqVars, cons, reader, uuid, call, run, authed,
                   flow, finished>>

\* "await asyncio.gather(*service_coros)" ends: with the exception of a
\* service task that failed, or normally when every service has returned.
FlowServicesEnd ==
    /\ LoopFree
    /\ flow.pc = "services"
    /\ \/ \E i \in Services :
            /\ svc[i] \in {"Exception", "RuntimeError"}
            /\ FlowFails(flow, svc[i])
       \/ /\ \A i \in Services : svc[i] = "returned"
          /\ flow' = [flow EXCEPT !.pc = "returned"]
          /\ UNCHANGED finished
    /\ UNCHANGED <<ioVars, wire, wlVars, mqVars, cons, reader, uuid, call, run, authed, svc>>

\* except ConnectionResetError: "if not authed" reads the local of run().
run_raises_mut_global(error, local_authed, global_authed) ==
    IF error = "ConnectionResetError" /\ ~global_authed THEN "AuthenticationError"
    ELSE error

run_raises(error, local_authed, global_authed) ==
    IF error = "ConnectionResetError" /\ ~local_authed THEN "AuthenticationError"
    ELSE error

\* service_coro.close(): a coroutine not started or suspended is closed; one
\* that has ended is left as it is.
coro_close_mut_unstarted(state) ==
    IF state = "created" THEN "closed" ELSE state

coro_close(state) ==
    IF state \in {"created", "running"} THEN "closed" ELSE state

\* sink_task.cancel(): a request the reader loop meets at its next step;
\* nothing for a task that has ended.
task_cancel_mut_noop(task) == task

task_cancel(task) ==
    IF task.pc = "reading" THEN [task EXCEPT !.cancelReq = TRUE] ELSE task

\* The outer gather raises the exception of the first task that ended with
\* one; run() classifies it and runs its "finally".
RunWake ==
    /\ LoopFree
    /\ run.pc = "gathering"
    /\ finished # <<>>
    /\ run' = [run EXCEPT !.pc = "ended",
                          !.err = run_raises(Head(finished).err, run.authed, authed),
                          !.logAtEnd = Len(log)]
    /\ svc' = [i \in Services |-> coro_close(svc[i])]
    /\ reader' = task_cancel(reader)
    /\ UNCHANGED <<ioVars, wire, wlVars, mqVars, cons, uuid, call, authed, flow, finished>>

RunNext ==
    \/ \E text \in ServerLines : ServerSend(text)
    \/ \E how \in {"eof", "reset"} : ServerClose(how)
    \/ RunStart
    \/ ReaderTurn
    \/ ReaderCancelled
    \/ \E password \in Passwords : FlowAuth(password)
    \/ FlowPing
    \/ FlowPingDrained
    \/ FlowPingGet
    \/ FlowTimeout
    \/ FlowAclose
    \/ \E i \in Services : SvcStart(i)
    \/ \E i \in Services, how \in {"returned", "Exception"} : SvcEnd(i, how)
    \/ \E i \in Services : SvcReuse(i)
    \/ FlowServicesEnd
    \/ RunWake

RunSpec == Init /\ [][RunNext]_vars

\* Every task runs when it can; a service need not ever end, and the server
\* need not ever send or close.
FairRunSpec ==
    /\ RunSpec
    /\ WF_vars(RunStart) /\ WF_vars(ReaderTurn) /\ WF_vars(ReaderCancelled)
    /\ WF_vars(\E password \in Passwords : FlowAuth(password))
    /\ WF_vars(FlowPing) /\ WF_vars(FlowPingDrained) /\ WF_vars(FlowPingGet)
    /\ WF_vars(FlowTimeout) /\ WF_vars(FlowAclose)
    /\ WF_vars(\E i \in Services : SvcStart(i))
    /\ WF_vars(\E i \in Services : SvcReuse(i))
    /\ WF_vars(FlowServicesEnd) /\ WF_vars(RunWake)

\* C5: once the transport is closed and nothing read before is left
\* buffered, the reader loop submits no further line (it terminates the
\* queue and ends instead).
C5_NoSubmitAfterClose ==
    [][(transport # "open" /\ rx = <<>>) => log' = log]_vars

\* The challenge of the ping has been taken from its subscription.
TokenObserved == authed

\* C6: when the peer closes the connection while run() is authenticating, the
\* challenge neither observed nor on its way to the ping, run() ends by
\* raising AuthenticationError.
C6_PreAuthFailure ==
    [](( /\ run.pc = "gathering"
         /\ reader.pc = "reading"
         /\ flow.pc \in {"pw_draining", "ping_draining", "ping_waiting"}
         /\ transport = "eof" /\ rx = <<>>
         /\ ~TokenObserved
         /\ flow.sub # 0 => queue[flow.sub] = <<>> )
       => <>(run.pc = "ended" /\ run.err = "AuthenticationError"))

\* C7: when the connection is lost after authentication has completed (the
\* challenge was taken by the ping before the connection went down, and so
\* before the reader loop failed on it), run() raises the connection error,
\* not AuthenticationError.
C7_NoAuthErrorAfterAuth ==
    (run.pc = "ended" /\ transport = "reset" /\ lossAuthed /\ Head(finished).authed)
        => run.err # "AuthenticationError"

\* C8: when run() has ended, no service coroutine is left unstarted or
\* suspended (each has ended or was closed), the reader loop has ended or
\* has its cancellation requested, and it has not submitted a line since.
C8_Shutdown ==
    run.pc = "ended" =>
        /\ \A i \in Services : svc[i] \notin {"new", "created", "running"}
        /\ reader.pc = "failed" \/ reader.cancelReq
        /\ Len(log) = run.logAtEnd

\* A service failed first, after authentication: run() has raised its
\* error, the other service was suspended and is closed, and the reader loop
\* ended on its cancellation with a line of the server left unread.
C8_Witness ==
    /\ run.pc = "ended" /\ run.err = "Exception"
    /\ Head(finished).task = "flow"
    /\ \E i \in Services : svc[i] = "closed"
    /\ reader.pc = "failed" /\ reader.err = "CancelledError"
    /\ rx # <<>>

(* ---------------------- write_line: the length limit ------------------- *)
\* Byte length of the longest framed line (payload and its "\n") on the wire.
RECURSIVE LongestFrame(_, _)
LongestFrame(w, cur) ==
    IF w = <<>> THEN 0
    ELSE IF Head(w) = LF
         THEN LET rest == LongestFrame(Tail(w), 0)
              IN  IF cur + 1 > rest THEN cur + 1 ELSE rest
         ELSE LongestFrame(Tail(w), cur + ByteLen(<<Head(w)>>))

\* C11: a payload with len+1 >= 16384 makes write_line raise SanitizerError
\* with nothing handed to the writer, so no framed line on the wire is longer
\* than 16383 bytes; a legal payload of 16382 bytes is not rejected.
C11_WriteLineLimit ==
    /\ \A w \in Writers :
          /\ (WlCalled(w) /\ ByteLen(wl[w].line) + 1 >= 16384)
                => (wl[w].res = "SanitizerError" /\ wl[w].after = wl[w].before)
          /\ (WlCalled(w) /\ wl[w].line = <<Block(16382)>>)
                => (wl[w].res # "SanitizerError" /\ wl[w].after # wl[w].before)
    /\ LongestFrame(wire, 0) <= 16383

C11_Witness ==
    \E v, w \in Writers :
        /\ wl[v].line = <<Block(16383)>> /\ wl[v].res = "SanitizerError"
        /\ wl[w].line = <<Block(16382)>> /\ wl[w].pc = "draining"
        /\ LongestFrame(wire, 0) = 16383

(* ------------------------ inbound line invariant ----------------------- *)
\* The raw text the reader loop is about to take still has an illegal byte
\* once its last byte and a timestamp prefix are removed.
NextInboundIllegal ==
    /\ reader.pc = "reading" /\ transport # "reset" /\ rx # <<>>
    /\ HasIllegalByte(strip_timestamp(strip_newline(Head(rx))))

\* C12: no line submitted to the queue, buffered for a subscription or taken
\* by a consumer contains \n, \r or NUL; an inbound line that still contains
\* one after stripping is not submitted: the reader loop takes it only by
\* failing with SanitizerError.
C12_InboundLegal ==
    /\ [](/\ \A i \in 1..Len(log) : ~HasIllegalByte(log[i])
          /\ \A s \in 1..Len(queue) : \A i \in 1..Len(queue[s]) :
                ~HasIllegalByte(queue[s][i])
          /\ \A c \in Calls :
                /\ \A i \in 1..Len(call[c].got) : ~HasIllegalByte(call[c].got[i])
                /\ \A i \in 1..Len(call[c].yielded) : ~HasIllegalByte(call[c].yielded[i]))
    /\ [][NextInboundIllegal =>
            /\ log' = log
            /\ Len(rx') < Len(rx) =>
                  (reader'.pc = "failed" /\ reader'.err = "SanitizerError")]_vars

C12_Witness ==
    /\ reader.pc = "failed" /\ reader.err = "SanitizerError"
    /\ log # <<>>
    /\ \E c \in Calls : call[c].got # <<>> /\ call[c].sub \in liveAtTerm

(* ------------------------ unsubscribing again -------------------------- *)
\* _unsubscribe(subscription) called for a subscription that has already
\* been unsubscribed (a MessageSubscriptionManager left a second time, or a
\* direct call): set.remove raises KeyError, the set is as it was.
QUnsubscribeAgain(s) ==
    /\ s \in DOMAIN queue
    /\ cons[s].state = "exited"
    /\ cons[s].exitErr = "none"
    /\ cons' = [cons EXCEPT ![s] = aexit(@, subscribers, s, Len(log))]
    /\ subscribers' = subscribers \ {s}
    /\ UNCHANGED <<ioVars, wireVars, queue, log, termAt, liveAtTerm, clientVars>>

UnsubNext ==
    \/ QueueNext
    \/ \E s \in 1..MaxSubs : QUnsubscribeAgain(s)

UnsubSpec == Init /\ [][UnsubNext]_vars

\* C13: unsubscribing never raises, also not the second time; once
\* unsubscribed, a subscription is handed nothing submitted afterwards and
\* no sentinel of a later terminate(); the other live subscriptions stay
\* live.
C13_UnsubscribeIdempotent ==
    /\ \A s \in DOMAIN queue :
          /\ cons[s].exitErr = "none"
          /\ cons[s].unsubAt # -1 =>
                /\ s \notin subscribers
                /\ IsPrefix(cons[s].seen \o LinesOf(queue[s]),
                            SubSeq(log, cons[s].subAt + 1, cons[s].unsubAt))
    /\ \A s \in DOMAIN queue : cons[s].state = "iterating" => s \in subscribers

(* ------------------------------ the Router ----------------------------- *)
\* Lines reaching the router: a raw line, a line that is no UTF-8, chat
\* events with a good payload, a short payload, an odd number of hex digits
\* and a text that is no UTF-8, and an event nobody registered for, with a
\* good payload and with a payload that is no hexadecimal text.
RouterLines ==
    { LineA, <<255>>,
      Frame(EvChat, to_hex(<<0, 1, 97, 0, 1, 98>>)),
      Frame(EvChat, to_hex(<<0, 2, 97>>)),
      Frame(EvChat, <<48>>),
      Frame(EvChat, to_hex(<<0, 1, 255>>)),
      Frame(EvOther, to_hex(<<0>>)),
      Frame(EvOther, <<103, 103>>) }

\* Router.__call__ and the wrapper up to its first get(): the subscription
\* is made on entering "async with subscriber as messages".
RouterStart ==
    /\ router.pc = "new"
    /\ router' = [router EXCEPT !.pc = "iterating", !.sub = Len(queue) + 1,
                                !.subAt = Len(log)]
    /\ queue' = Append(queue, <<>>)
    /\ subscribers' = subscribers \cup {Len(queue) + 1}
    /\ UNCHANGED <<transport, rx, lossAuthed, bstream, inflight, wireVars, log, cons, termAt,
                   liveAtTerm, clientVars>>

\* One turn of "async for message in messages": on the sentinel get() raises
\* CancelledError, which leaves the "async with" (unsubscribing) and ends the
\* wrapper; otherwise a task is created for handle_message and for the
\* log subscriber, whose funcs raise when fail holds.
RouterTurn(fail) ==
    LET message == Head(queue[router.sub])
        hm      == handle_message(message, fail)
        logerr  == IF fail THEN "Exception" ELSE "none"
    IN  /\ router.pc = "iterating"
        /\ queue[router.sub] # <<>>
        /\ queue' = [queue EXCEPT ![router.sub] = Tail(@)]
        /\ IF get_raises(message)
           THEN /\ router' = [router EXCEPT !.pc = "cancelled"]
                /\ subscribers' = subscribers \ {router.sub}
           ELSE /\ router' =
                     [router EXCEPT
                        !.pc = create_task(create_task(@, hm.err), logerr),
                        !.raw = Append(@, message),
                        !.faults = IF hm.err # "none" \/ fail THEN @ + 1 ELSE @,
                        !.last = [line |-> message, err |-> hm.err,
                                  calls |-> hm.calls, after |-> router.faults]]
                /\ UNCHANGED subscribers
        /\ UNCHANGED <<transport, rx, lossAuthed, bstream, inflight, wireVars, log, cons, termAt,
                       liveAtTerm, clientVars>>

RouterNext ==
    \/ RouterStart
    \/ \E line \in RouterLines : QSubmit(line)
    \/ QTerminate
    \/ \E fail \in BOOLEAN : RouterTurn(fail)

RouterSpec == Init /\ [][RouterNext]_vars

\* The router has dispatched a line, the last one being an event frame (of
\* a decodable line) whose name no handler is registered for.
LastUnregistered ==
    /\ router.raw # <<>>
    /\ decodes(router.last.line)
    /\ event_matcher(router.last.line).matched
    /\ Handlers(event_matcher(router.last.line).name) = <<>>

\* C14: an event frame with an unregistered name is dropped: its dispatch
\* raises nothing and invokes no handler, and the router goes on iterating.
C14_UnregisteredDropped ==
    LastUnregistered =>
        /\ router.last.err = "none"
        /\ router.last.calls = <<>>
        /\ router.pc \in {"iterating", "cancelled"}

\* The last line dispatched is an event frame with a well-formed payload.
LastWellFormed ==
    /\ router.raw # <<>>
    /\ decodes(router.last.line)
    /\ event_matcher(router.last.line).matched
    /\ from_hex(event_matcher(router.last.line).payload).err = "none"

\* C15: no failure of a dispatch (bad hex, bad text, a handler raising) ends
\* the router: its loop only ends by the termination of the queue, until
\* then it keeps its subscription, every line submitted is handed to the raw
\* subscribers in order, and an event frame is still given to every handler
\* of its name, however many dispatches failed before.
C15_FaultIsolation ==
    /\ router.pc \in {"new", "iterating", "cancelled"}
    /\ router.pc = "cancelled" => termAt # -1
    /\ router.pc = "iterating" =>
          /\ router.sub \in subscribers
          /\ router.raw \o LinesOf(queue[router.sub])
                = SubSeq(log, router.subAt + 1, Len(log))
    /\ router.raw # <<>> => router.last.line = router.raw[Len(router.raw)]
    /\ LastWellFormed =>
          Len(router.last.calls)
              = Len(Handlers(event_matcher(router.last.line).name))

\* Three dispatches: an odd number of hex digits, then a chat event whose
\* handlers raise, then a good chat event given to both handlers.
C15_Witness ==
    /\ router.pc = "iterating"
    /\ Len(router.raw) = 3
    /\ router.raw[1] = Frame(EvChat, <<48>>)
    /\ router.last.after = 2
    /\ router.last.line = Frame(EvChat, to_hex(<<0, 1, 97, 0, 1, 98>>))
    /\ Len(router.last.calls) = 2
    /\ router.last.calls[1].err = "none"

(* --------------------------- ByteStream.read_int ----------------------- *)
\* Buffers of up to MaxData bytes over a small alphabet.
ByteData == SeqsUpTo({1, 2}, MaxData)

\* ByteStream(data)
ByteNew(data) ==
    /\ bstream.reads = 0
    /\ bstream.data = <<>>
    /\ data # <<>>
    /\ bstream' = [bstream EXCEPT !.data = data, !.pos = ByteStream(data).pos]
    /\ UNCHANGED <<transport, rx, lossAuthed, router, inflight, wireVars, mqVars, cons, clientVars>>

\* stream.read_int(n_bytes), with the history of the call.
ByteReadInt(n_bytes) ==
    /\ bstream.reads < MaxReads
    /\ bstream' = [bstream EXCEPT
                     !.pos = read_int(bstream, n_bytes).pos,
                     !.reads = @ + 1,
                     !.last = [n |-> n_bytes, before |-> bstream.pos,
                               value |-> read_int(bstream, n_bytes).value,
                               err |-> "none"]]
    /\ UNCHANGED <<transport, rx, lossAuthed, router, inflight, wireVars, mqVars, cons, clientVars>>

ByteNext ==
    \/ \E data \in ByteData : ByteNew(data)
    \/ \E n_bytes \in 0..MaxIntBytes : ByteReadInt(n_bytes)

ByteSpec == Init /\ [][ByteNext]_vars

\* C16: read_int(n) with fewer than n bytes left after the cursor fails with
\* a decode fault and returns no value; otherwise it returns the big-endian
\* value of the next n bytes and moves the cursor by n; the cursor is never
\* beyond the end of the buffer.
C16_ReadIntBounded ==
    /\ bstream.pos <= Len(bstream.data)
    /\ bstream.reads > 0 =>
          IF Len(bstream.data) - bstream.last.before < bstream.last.n
          THEN bstream.last.err # "none"
          ELSE /\ bstream.last.err = "none"
               /\ bstream.last.value
                    = from_bytes(SubSeq(bstream.data, bstream.last.before + 1,
                                        bstream.last.before + bstream.last.n))
               /\ bstream.pos = bstream.last.before + bstream.last.n

(* --------------------- submit(), target by target ---------------------- *)
\* SnapSpec is QueueSpec with submit() taken one loop turn at a time:
\*     for subscriber in self._subscribers:
\*         await subscriber.queue.put(message)
\* Another task (subscribing, unsubscribing, consuming, terminating) runs
\* only while no submit() is in flight or the one in flight is suspended in
\* its put().
CanRun == ~inflight.active \/ inflight.suspended

SnapSubmitStart(message) ==
    /\ ~inflight.active
    /\ Len(log) < MaxSubmit
    /\ log' = Append(log, message)
    /\ inflight' = [active |-> TRUE, suspended |-> FALSE, message |-> message,
                    startSet |-> subscribers, size |-> Cardinality(subscribers),
                    visited |-> {}, err |-> "none", calls |-> inflight.calls + 1]
    /\ UNCHANGED <<transport, rx, lossAuthed, bstream, router, wireVars, subscribers,
                   queue, cons, termAt, liveAtTerm, clientVars>>

\* The next turn of the "for": the set iterator raises RuntimeError when the
\* set has changed size since the iteration began, ends the loop when
\* nothing is left, and otherwise gives a subscriber not yet visited.
SnapSubmitStep ==
    /\ inflight.active
    /\ IF Cardinality(subscribers) # inflight.size
       THEN /\ inflight' = [inflight EXCEPT !.active = FALSE, !.suspended = FALSE,
                                            !.err = "RuntimeError"]
            /\ UNCHANGED queue
       ELSE IF subscribers \ inflight.visited = {}
       THEN /\ inflight' = [inflight EXCEPT !.active = FALSE, !.suspended = FALSE]
            /\ UNCHANGED queue
       ELSE \E s \in subscribers \ inflight.visited :
               /\ queue' = [queue EXCEPT ![s] = Append(@, inflight.message)]
               /\ inflight' = [inflight EXCEPT !.visited = @ \cup {s},
                                               !.suspended = put_suspends(queue[s])]
    /\ UNCHANGED <<transport, rx, lossAuthed, bstream, router, wireVars, subscribers,
                   log, cons, termAt, liveAtTerm, clientVars>>

SnapNext ==
    \/ SnapSubmitStart(NextLine)
    \/ SnapSubmitStep
    \/ CanRun /\ QSubscribe
    \/ \E s \in 1..MaxSubs : CanRun /\ QLeave(s)
    \/ \E s \in 1..MaxSubs : CanRun /\ QGet(s)
    \/ CanRun /\ QTerminate

SnapSpec == Init /\ [][SnapNext]_vars

\* C17: a submit() call never fails; while it is in flight the subscriber set
\* is the one it started with, it visits targets of that set only and, when
\* it returns, has visited every one of them; so each subscription holds
\* exactly the lines of the calls that started while it was live, and one
\* added after a call started has not been given that call's line.
C17_SubmitSnapshot ==
    /\ inflight.err = "none"
    /\ inflight.visited \subseteq inflight.startSet
    /\ inflight.active => subscribers = inflight.startSet
    /\ (~inflight.active /\ inflight.calls > 0) =>
          /\ inflight.visited = inflight.startSet
          /\ \A s \in DOMAIN queue :
                cons[s].seen \o LinesOf(queue[s]) =
                    SubSeq(log, cons[s].subAt + 1,
                           IF cons[s].unsubAt = -1 THEN Len(log) ELSE cons[s].unsubAt)

\* A call that started with subscription 1 alone has returned; subscription
\* 2, made after it, is live and holds nothing, 1 holds the line.
C17_Witness ==
    /\ ~inflight.active /\ inflight.calls = 1
    /\ inflight.startSet = {1} /\ inflight.visited = {1}
    /\ subscribers = {1, 2}
    /\ queue[1] = <<inflight.message>> /\ queue[2] = <<>>

(* ------------------ release of a script call's subscription ------------ *)
\* C18: once a script call's consumption has ended (second challenge seen,
\* or an error raised through it), the subscription it opened is no longer
\* in the live set of the queue.
C18_ReleasedAtEnd ==
    \A c \in Calls :
        call[c].pc \in {"done", "closed", "raised"} => call[c].sub \notin subscribers

(* ------------------- concurrent write_line calls ----------------------- *)
\* The payloads of the framed lines on the wire, in order; what follows the
\* last "\n" is left out.
RECURSIVE FramesOf(_, _)
FramesOf(w, cur) ==
    IF w = <<>> THEN <<>>
    ELSE IF Head(w) = LF THEN <<cur>> \o FramesOf(Tail(w), <<>>)
    ELSE FramesOf(Tail(w), Append(cur, Head(w)))

EndsFrame(w) == w = <<>> \/ w[Len(w)] = LF

\* A write_line call by w was accepted: it is draining or has drained.
WlAccepted(w) == wl[w].pc = "draining" \/ wl[w].res \in {"ok", "ConnectionResetError"}

\* C19: whatever the interleaving of the write_line calls of several tasks,
\* the wire is a concatenation of whole framed lines: it ends at a frame
\* boundary, every frame is a payload write_line accepts, at most one per
\* call, and each accepted call put its payload and then its own "\n" at a
\* frame boundary, where they still are.
C19_WholeFrames ==
    /\ EndsFrame(wire)
    /\ Len(FramesOf(wire, <<>>)) <= nwrites
    /\ \A i \in 1..Len(FramesOf(wire, <<>>)) :
          /\ FramesOf(wire, <<>>)[i] \in Payloads
          /\ write_line(FramesOf(wire, <<>>)[i]) = "written"
    /\ \A w \in Writers :
          WlAccepted(w) =>
              /\ EndsFrame(wl[w].before)
              /\ IsPrefix(wl[w].before \o wl[w].line \o <<LF>>, wire)

\* Two calls in flight together, neither drained: both lines are whole.
C19_Witness ==
    /\ wl[1].pc = "draining" /\ wl[2].pc = "draining"
    /\ wl[1].line = <<Block(16382)>> /\ wl[2].line = LineA
    /\ wire = <<Block(16382), LF>> \o LineA \o <<LF>>

(* ------------------- handlers of one event, one stream ----------------- *)
\* C20: every handler of an event whose func was called for one occurrence
\* (of a payload that decodes from offset 0) was called with the same
\* decoded arguments, those decoded from offset 0 of the payload.
C20_SameArguments ==
    LET m == event_matcher(router.last.line)
    IN  \A i \in 1..Len(router.last.calls) :
            ( /\ ChatMessage_from_bytestream(from_hex(m.payload).data, 0).err = "none"
              /\ router.last.calls[i].err \in {"none", "Exception"} ) =>
                router.last.calls[i].args
                    = ChatMessage_from_bytestream(from_hex(m.payload).data, 0).args

(* ------------------ subscribing after the queue terminated ------------- *)
\* ScriptSpec with every client task running when it can; the server need
\* not ever send or close, and nobody need ever start a call.
FairScriptSpec ==
    /\ ScriptSpec
    /\ WF_vars(SinkStart) /\ WF_vars(ReaderTurn)
    /\ \A c \in Calls :
          WF_vars(CallDrained(c)) /\ WF_vars(CallGet(c)) /\ WF_vars(CallAclose(c))

\* Call c is in flight on a subscription made after the reader loop ended
\* and terminated the queue.
SubscribedAfterTerminate(c) ==
    /\ reader.pc = "failed"
    /\ call[c].pc \in {"draining", "reading"}
    /\ call[c].sub \notin liveAtTerm

\* C21: a script call that subscribed after the queue was terminated
\* eventually ends, by end-of-stream or by an error.
C21_NoHangAfterTerminate ==
    \A c \in Calls :
        [](SubscribedAfterTerminate(c)
              => <>(call[c].pc \in {"done", "closed", "raised"}))

====
